---- MODULE Spec2Model ----
(***************************************************************************)
(* ibnet::core::IbNodeConfStringReader: a reader that holds a string and   *)
(* whose Read() splits it into tokens and adds every token, in order, to a *)
(* fresh IbNodeConf.                                                       *)
(*                                                                         *)
(* A string is a sequence of one-character strings.  Read() is modelled    *)
(* statement by statement so that calls of several threads interleave.     *)
(* sys::StringUtils::Split and IbNodeConf::AddEntry are collaborators of   *)
(* the reader; they are modelled from their documented contracts.          *)
(***************************************************************************)
EXTENDS Naturals, Sequences, FiniteSets, TLC

VARIABLES m_str, pc, self, conf, tokens, it, invoked, overlap, results, calls

vars == <<m_str, pc, self, conf, tokens, it, invoked, overlap, results, calls>>

(* ------------------------------ bounds --------------------------------- *)
MaxLen == 5      \* longest source string of the sequential specification
MaxCalls == 2    \* Read() calls issued by the single caller
MaxLenC == 3     \* longest source string of the concurrent specification
MaxLenF == 5     \* longest source string of the fair specification

Chars == {"a", "b", " ", "\t"}
CharsC == {"a", " "}
Errors == {"E1", "E2"}

Strings(alphabet, n) == UNION {[1..k -> alphabet] : k \in 0..n}
Sources == Strings(Chars, MaxLen)
SourcesC == Strings(CharsC, MaxLenC)
SourcesF == Strings(CharsC, MaxLenF)

(* --------------------------- collaborators ----------------------------- *)
\* the standard whitespace characters (vertical tab has no TLA+ escape)
Whitespace == {" ", "\t", "\n", "\r", "\f"}

\* sys::StringUtils::Split: one left-to-right scan; cur is the token being
\* collected, acc the tokens completed so far; empty fragments are dropped.
RECURSIVE SplitFrom(_, _, _, _)
SplitFrom(text, i, cur, acc) ==
    IF i > Len(text)
    THEN IF cur = <<>> THEN acc ELSE Append(acc, cur)
    ELSE IF text[i] \in Whitespace
         THEN SplitFrom(text, i + 1, <<>>,
                        IF cur = <<>> THEN acc ELSE Append(acc, cur))
         ELSE SplitFrom(text, i + 1, Append(cur, text[i]), acc)

Split(text) == SplitFrom(text, 1, <<>>, <<>>)

\* IbNodeConf::AddEntry: either the descriptor is appended as a new last
\* entry, or the operation fails with some failure signal.
AddEntry(c, descriptor) ==
    {[ok |-> TRUE, conf |-> Append(c, descriptor), err |-> "none"]}
    \cup {[ok |-> FALSE, conf |-> c, err |-> e] : e \in Errors}

(* ------------------------------ reader --------------------------------- *)
\* IbNodeConfStringReader(const std::string& str) : m_str(str)
IbNodeConfStringReader(str) == str

\* what the caller of one Read() call received
Outcome(t, ret, c, thrown, raised, inv) ==
    [reader |-> self[t], returned |-> ret, conf |-> c, thrown |-> thrown,
     raised |-> raised, invoked |-> inv, overlap |-> overlap[t]]

\* rs readers constructed over strings of srcs, ts threads that will each
\* call Read() n times; no call has started
Setup(rs, ts, srcs, n) ==
    /\ m_str \in {[r \in rs |-> IbNodeConfStringReader(f[r])] :
                     f \in [rs -> srcs]}
    /\ pc = [t \in ts |-> "idle"]
    /\ self = [t \in ts |-> 1]
    /\ conf = [t \in ts |-> <<>>]
    /\ tokens = [t \in ts |-> <<>>]
    /\ it = [t \in ts |-> 1]
    /\ invoked = [t \in ts |-> <<>>]
    /\ overlap = [t \in ts |-> FALSE]
    /\ results = [t \in ts |-> <<>>]
    /\ calls = [t \in ts |-> n]

\* one reader, called repeatedly by one thread
Init == Setup({1}, {1}, Sources, MaxCalls)

\* two readers and two threads; each thread calls Read() once, on either
\* reader
InitC == Setup({1, 2}, {1, 2}, SourcesC, 1)

\* one reader over the two-letter alphabet, called repeatedly by one thread
InitF == Setup({1}, {1}, SourcesF, MaxCalls)

Threads == DOMAIN pc
Readers == DOMAIN m_str

\* variant: conf outlives the call (a static or member IbNodeConf) and is
\* not constructed anew
ReadBegin_KeepConf(t, r) ==
    /\ pc[t] = "idle"
    /\ calls[t] > 0
    /\ calls' = [calls EXCEPT ![t] = @ - 1]
    /\ self' = [self EXCEPT ![t] = r]
    /\ invoked' = [invoked EXCEPT ![t] = <<>>]
    /\ overlap' = [u \in Threads |->
          IF u = t THEN \E v \in Threads \ {t} : pc[v] # "idle"
          ELSE overlap[u] \/ pc[u] # "idle"]
    /\ pc' = [pc EXCEPT ![t] = "split"]
    /\ UNCHANGED <<m_str, conf, tokens, it, results>>

\* Read() is entered on reader r; line 39: IbNodeConf conf;
\* overlap[u] records that another thread was inside Read() during u's call.
ReadBegin(t, r) ==
    /\ pc[t] = "idle"
    /\ calls[t] > 0
    /\ calls' = [calls EXCEPT ![t] = @ - 1]
    /\ self' = [self EXCEPT ![t] = r]
    /\ conf' = [conf EXCEPT ![t] = <<>>]
    /\ invoked' = [invoked EXCEPT ![t] = <<>>]
    /\ overlap' = [u \in Threads |->
          IF u = t THEN \E v \in Threads \ {t} : pc[v] # "idle"
          ELSE overlap[u] \/ pc[u] # "idle"]
    /\ pc' = [pc EXCEPT ![t] = "split"]
    /\ UNCHANGED <<m_str, tokens, it, results>>

\* variant splits: only the space character delimits
RECURSIVE SplitSpaceFrom(_, _, _, _)
SplitSpaceFrom(text, i, cur, acc) ==
    IF i > Len(text)
    THEN IF cur = <<>> THEN acc ELSE Append(acc, cur)
    ELSE IF text[i] = " "
         THEN SplitSpaceFrom(text, i + 1, <<>>,
                             IF cur = <<>> THEN acc ELSE Append(acc, cur))
         ELSE SplitSpaceFrom(text, i + 1, Append(cur, text[i]), acc)

\* variant splits: the empty fragments between delimiters are kept
RECURSIVE SplitKeepFrom(_, _, _, _)
SplitKeepFrom(text, i, cur, acc) ==
    IF i > Len(text)
    THEN Append(acc, cur)
    ELSE IF text[i] \in Whitespace
         THEN SplitKeepFrom(text, i + 1, <<>>, Append(acc, cur))
         ELSE SplitKeepFrom(text, i + 1, Append(cur, text[i]), acc)

ReadSplitWith(t, toks, str) ==
    /\ pc[t] = "split"
    /\ tokens' = [tokens EXCEPT ![t] = toks]
    /\ it' = [it EXCEPT ![t] = 1]
    /\ pc' = [pc EXCEPT ![t] = "loop"]
    /\ m_str' = [m_str EXCEPT ![self[t]] = str]
    /\ UNCHANGED <<self, conf, invoked, overlap, results, calls>>

\* variant: Split(m_str, " ")
ReadSplit_SpaceOnly(t) ==
    ReadSplitWith(t, SplitSpaceFrom(m_str[self[t]], 1, <<>>, <<>>),
                  m_str[self[t]])

\* variant: Split(m_str, keep empty fragments)
ReadSplit_KeepEmpty(t) ==
    ReadSplitWith(t, SplitKeepFrom(m_str[self[t]], 1, <<>>, <<>>),
                  m_str[self[t]])

\* variant: a source without any delimiter-separated token is taken as one
\* descriptor
ReadSplit_WholeIfNone(t) ==
    ReadSplitWith(t, IF Split(m_str[self[t]]) = <<>>
                     THEN <<m_str[self[t]]>> ELSE Split(m_str[self[t]]),
                  m_str[self[t]])

\* variant: Split(std::move(m_str)) leaves the member empty
ReadSplit_Consume(t) ==
    ReadSplitWith(t, Split(m_str[self[t]]), <<>>)

\* line 40: tokens = sys::StringUtils::Split(m_str); the loop starts at
\* the first token
ReadSplit(t) ==
    /\ pc[t] = "split"
    /\ tokens' = [tokens EXCEPT ![t] = Split(m_str[self[t]])]
    /\ it' = [it EXCEPT ![t] = 1]
    /\ pc' = [pc EXCEPT ![t] = "loop"]
    /\ UNCHANGED <<m_str, self, conf, invoked, overlap, results, calls>>

\* variant: the descriptor is inserted in front of the entries
ReadAddEntry_Prepend(t) ==
    /\ pc[t] = "loop"
    /\ it[t] <= Len(tokens[t])
    /\ invoked' = [invoked EXCEPT ![t] = Append(@, tokens[t][it[t]])]
    /\ \E res \in AddEntry(conf[t], tokens[t][it[t]]) :
          IF res.ok
          THEN /\ conf' = [conf EXCEPT ![t] = <<tokens[t][it[t]]>> \o @]
               /\ it' = [it EXCEPT ![t] = @ + 1]
               /\ UNCHANGED <<pc, results>>
          ELSE /\ results' = [results EXCEPT ![t] =
                     Append(@, Outcome(t, FALSE, <<>>, res.err, res.err,
                                       invoked'[t]))]
               /\ pc' = [pc EXCEPT ![t] = "idle"]
               /\ UNCHANGED <<conf, it>>
    /\ UNCHANGED <<m_str, self, tokens, overlap, calls>>

\* variant: Read() catches the failure and returns what it has built
ReadAddEntry_CatchReturn(t) ==
    /\ pc[t] = "loop"
    /\ it[t] <= Len(tokens[t])
    /\ invoked' = [invoked EXCEPT ![t] = Append(@, tokens[t][it[t]])]
    /\ \E res \in AddEntry(conf[t], tokens[t][it[t]]) :
          IF res.ok
          THEN /\ conf' = [conf EXCEPT ![t] = res.conf]
               /\ it' = [it EXCEPT ![t] = @ + 1]
               /\ UNCHANGED <<pc, results>>
          ELSE /\ results' = [results EXCEPT ![t] =
                     Append(@, Outcome(t, TRUE, conf[t], "none", res.err,
                                       invoked'[t]))]
               /\ pc' = [pc EXCEPT ![t] = "idle"]
               /\ UNCHANGED <<conf, it>>
    /\ UNCHANGED <<m_str, self, tokens, overlap, calls>>

\* variant: a descriptor that is already an entry is not added again
ReadAddEntry_SkipDup(t) ==
    /\ pc[t] = "loop"
    /\ it[t] <= Len(tokens[t])
    /\ IF \E k \in 1..Len(conf[t]) : conf[t][k] = tokens[t][it[t]]
       THEN /\ it' = [it EXCEPT ![t] = @ + 1]
            /\ UNCHANGED <<conf, invoked, pc, results>>
       ELSE /\ invoked' = [invoked EXCEPT ![t] = Append(@, tokens[t][it[t]])]
            /\ \E res \in AddEntry(conf[t], tokens[t][it[t]]) :
                 IF res.ok
                 THEN /\ conf' = [conf EXCEPT ![t] = res.conf]
                      /\ it' = [it EXCEPT ![t] = @ + 1]
                      /\ UNCHANGED <<pc, results>>
                 ELSE /\ results' = [results EXCEPT ![t] =
                            Append(@, Outcome(t, FALSE, <<>>, res.err, res.err,
                                              invoked'[t]))]
                      /\ pc' = [pc EXCEPT ![t] = "idle"]
                      /\ UNCHANGED <<conf, it>>
    /\ UNCHANGED <<m_str, self, tokens, overlap, calls>>

\* variant: conf is one object shared by all calls (static IbNodeConf conf)
ReadAddEntry_SharedConf(t) ==
    /\ pc[t] = "loop"
    /\ it[t] <= Len(tokens[t])
    /\ invoked' = [invoked EXCEPT ![t] = Append(@, tokens[t][it[t]])]
    /\ \E res \in AddEntry(conf[t], tokens[t][it[t]]) :
          IF res.ok
          THEN /\ conf' = [u \in Threads |->
                     IF u = t \/ pc[u] # "idle"
                     THEN Append(conf[u], tokens[t][it[t]]) ELSE conf[u]]
               /\ it' = [it EXCEPT ![t] = @ + 1]
               /\ UNCHANGED <<pc, results>>
          ELSE /\ results' = [results EXCEPT ![t] =
                     Append(@, Outcome(t, FALSE, <<>>, res.err, res.err,
                                       invoked'[t]))]
               /\ pc' = [pc EXCEPT ![t] = "idle"]
               /\ UNCHANGED <<conf, it>>
    /\ UNCHANGED <<m_str, self, tokens, overlap, calls>>

\* variant: Read() swallows the failure and goes on with the next token
ReadAddEntry_Continue(t) ==
    /\ pc[t] = "loop"
    /\ it[t] <= Len(tokens[t])
    /\ invoked' = [invoked EXCEPT ![t] = Append(@, tokens[t][it[t]])]
    /\ \E res \in AddEntry(conf[t], tokens[t][it[t]]) :
          /\ conf' = [conf EXCEPT ![t] = res.conf]
          /\ it' = [it EXCEPT ![t] = @ + 1]
          /\ UNCHANGED <<pc, results>>
    /\ UNCHANGED <<m_str, self, tokens, overlap, calls>>

\* lines 42-44: one iteration, conf.AddEntry(it).  A failure is not caught
\* by Read(): it leaves Read() and reaches the caller, conf is destroyed.
ReadAddEntry(t) ==
    /\ pc[t] = "loop"
    /\ it[t] <= Len(tokens[t])
    /\ invoked' = [invoked EXCEPT ![t] = Append(@, tokens[t][it[t]])]
    /\ \E res \in AddEntry(conf[t], tokens[t][it[t]]) :
          IF res.ok
          THEN /\ conf' = [conf EXCEPT ![t] = res.conf]
               /\ it' = [it EXCEPT ![t] = @ + 1]
               /\ UNCHANGED <<pc, results>>
          ELSE /\ results' = [results EXCEPT ![t] =
                     Append(@, Outcome(t, FALSE, <<>>, res.err, res.err,
                                       invoked'[t]))]
               /\ pc' = [pc EXCEPT ![t] = "idle"]
               /\ UNCHANGED <<conf, it>>
    /\ UNCHANGED <<m_str, self, tokens, overlap, calls>>

\* line 46: return conf;
ReadReturn(t) ==
    /\ pc[t] = "loop"
    /\ it[t] > Len(tokens[t])
    /\ results' = [results EXCEPT ![t] =
          Append(@, Outcome(t, TRUE, conf[t], "none", "none", invoked[t]))]
    /\ pc' = [pc EXCEPT ![t] = "idle"]
    /\ UNCHANGED <<m_str, self, conf, tokens, it, invoked, overlap, calls>>

Next ==
    \/ \E t \in Threads, r \in Readers : ReadBegin(t, r)
    \/ \E t \in Threads : ReadSplit(t)
    \/ \E t \in Threads : ReadAddEntry(t)
    \/ \E t \in Threads : ReadReturn(t)

Spec == Init /\ [][Next]_vars
SpecConc == InitC /\ [][Next]_vars

\* the body of Read() is straight-line code over a finite loop: a thread
\* that is inside Read() keeps executing it
FairSpec ==
    InitF /\ [][Next]_vars /\ WF_vars(ReadSplit(1) \/ ReadAddEntry(1) \/ ReadReturn(1))

(* ----------------- vocabulary of the properties ------------------------ *)
\* s[i..j] is a maximal non-empty substring of s without whitespace
IsToken(s, i, j) ==
    /\ i <= j
    /\ \A k \in i..j : s[k] \notin Whitespace
    /\ i = 1 \/ s[i - 1] \in Whitespace
    /\ j = Len(s) \/ s[j + 1] \in Whitespace

TokenSpans(s) ==
    {sp \in (1..Len(s)) \X (1..Len(s)) : IsToken(s, sp[1], sp[2])}

\* position of a token, counted left to right from 1
Rank(s, sp) == Cardinality({q \in TokenSpans(s) : q[1] <= sp[1]})

NumTokens(s) == Cardinality(TokenSpans(s))

NthToken(s, k) ==
    LET sp == CHOOSE q \in TokenSpans(s) : Rank(s, q) = k
    IN  SubSeq(s, sp[1], sp[2])

TokenSeq(s) == [k \in 1..NumTokens(s) |-> NthToken(s, k)]

AllWhitespace(s) == \A k \in 1..Len(s) : s[k] \in Whitespace

\* every Read() call that has ended, as <<thread, number of the call>>
Ended == {c \in Threads \X (1..MaxCalls) : c[2] <= Len(results[c[1]])}
Res(c) == results[c[1]][c[2]]
Src(c) == m_str[Res(c).reader]

\* the threads that are inside Read()
Running == {t \in Threads : pc[t] # "idle"}

(* ------------------------------ claims --------------------------------- *)
\* C1: a Read() in which every AddEntry call succeeded returns a
\* configuration with as many entries as the source has maximal non-empty
\* whitespace-delimited substrings, the i-th entry being the i-th of them
\* from the left.
C1_EntriesAreTokens ==
    \A c \in Ended : Res(c).returned =>
        /\ Len(Res(c).conf) = NumTokens(Src(c))
        /\ \A sp \in TokenSpans(Src(c)) :
              Res(c).conf[Rank(Src(c), sp)] = SubSeq(Src(c), sp[1], sp[2])

C1_Witness ==
    \E c \in Ended :
        /\ Res(c).returned
        /\ Src(c) = <<" ", "b", "\t", "a", "b">>
        /\ Res(c).conf = << <<"b">>, <<"a", "b">> >>

\* C2: when an AddEntry call of a Read() fails, the caller of Read() gets
\* exactly the failure signal AddEntry raised and no configuration.
C2_FailurePropagates ==
    \A c \in Ended :
        /\ Res(c).raised # "none" =>
              ~Res(c).returned /\ Res(c).thrown = Res(c).raised
        /\ Res(c).returned <=> Res(c).thrown = "none"

C2_Witness ==
    \E c \in Ended :
        /\ Res(c).raised = "E2"
        /\ Res(c).thrown = "E2"
        /\ ~Res(c).returned
        /\ Len(Res(c).invoked) = 2

\* C3: any two Read() calls on the same reader that return a configuration
\* return the same ordered entries.
C3_Idempotent ==
    \A c \in Ended : \A d \in Ended :
        (Res(c).returned /\ Res(d).returned /\ Res(c).reader = Res(d).reader)
            => Res(c).conf = Res(d).conf

C3_Witness ==
    \E t \in Threads :
        /\ Len(results[t]) >= 2
        /\ results[t][1].returned /\ results[t][2].returned
        /\ results[t][1].reader = results[t][2].reader
        /\ Len(results[t][2].conf) = 2

\* C4: on an empty or all-whitespace source Read() never invokes AddEntry
\* and can only end by returning a configuration without entries.
C4_BlankSource ==
    /\ \A t \in Running : AllWhitespace(m_str[self[t]]) =>
            invoked[t] = <<>> /\ conf[t] = <<>>
    /\ \A c \in Ended : AllWhitespace(Src(c)) =>
            /\ Res(c).returned
            /\ Res(c).conf = <<>>
            /\ Res(c).invoked = <<>>

C4_Witness ==
    \E c \in Ended :
        /\ Src(c) = <<" ", "\t", " ">>
        /\ Res(c).returned
        /\ Res(c).conf = <<>>

\* C5: no descriptor handed to AddEntry is the empty string, whatever
\* whitespace the source has in front, at the end or between tokens.
C5_NoEmptyDescriptor ==
    /\ \A t \in Threads : \A k \in 1..Len(invoked[t]) : invoked[t][k] # <<>>
    /\ \A c \in Ended : \A k \in 1..Len(Res(c).invoked) :
            Res(c).invoked[k] # <<>>

C5_Witness ==
    \E c \in Ended :
        /\ Src(c) = <<" ", "a", " ", " ", "b">>
        /\ Res(c).returned
        /\ Len(Res(c).invoked) = 2

\* C6: every standard whitespace character separates descriptors: no
\* descriptor handed to AddEntry and no entry returned contains one, and a
\* returned configuration has one entry per place of the source where a
\* non-whitespace character begins the source or follows whitespace.
HasWhitespace(w) == \E k \in 1..Len(w) : w[k] \in Whitespace

TokenStarts(s) ==
    {i \in 1..Len(s) :
        s[i] \notin Whitespace /\ (i = 1 \/ s[i - 1] \in Whitespace)}

C6_SplitsOnAllWhitespace ==
    /\ \A t \in Threads : \A k \in 1..Len(invoked[t]) :
            ~HasWhitespace(invoked[t][k])
    /\ \A c \in Ended : Res(c).returned =>
            /\ \A k \in 1..Len(Res(c).conf) : ~HasWhitespace(Res(c).conf[k])
            /\ Len(Res(c).conf) = Cardinality(TokenStarts(Src(c)))

C6_Witness ==
    \E c \in Ended :
        /\ Src(c) = <<"a", "\t", "b">>
        /\ Res(c).returned
        /\ Res(c).conf = << <<"a">>, <<"b">> >>

\* C7: for every string w that is an entry or a token, the positions of a returned configuration that
\* hold w are exactly the positions at which w occurs as a token of the
\* source: k occurrences give k entries.
C7_NoDeduplication ==
    \A c \in Ended : Res(c).returned =>
        \A w \in {Res(c).conf[k] : k \in 1..Len(Res(c).conf)}
                \cup {NthToken(Src(c), k) : k \in 1..NumTokens(Src(c))} :
            {k \in 1..Len(Res(c).conf) : Res(c).conf[k] = w}
              = {Rank(Src(c), sp) : sp \in
                    {q \in TokenSpans(Src(c)) :
                        SubSeq(Src(c), q[1], q[2]) = w}}

C7_Witness ==
    \E c \in Ended :
        /\ Src(c) = <<"a", " ", "b", " ", "a">>
        /\ Res(c).returned
        /\ Res(c).conf = << <<"a">>, <<"b">>, <<"a">> >>

\* C8: no step of Read() changes the source string of any reader, and a
\* step changes nothing outside the Read() call that takes it.
C8_Step ==
    /\ m_str' = m_str
    /\ \A t \in Threads : pc'[t] = pc[t] /\ invoked'[t] = invoked[t] =>
            /\ conf'[t] = conf[t]
            /\ tokens'[t] = tokens[t]
            /\ it'[t] = it[t]
            /\ results'[t] = results[t]

C8_SourceUnchanged == [][C8_Step]_vars

C8_Witness ==
    \E t \in Threads :
        /\ Len(results[t]) >= 2
        /\ ~results[t][1].returned
        /\ results[t][2].returned
        /\ results[t][2].conf = << <<"a", "b">> >>

\* C9: under every interleaving, a Read() call that returns, returns the
\* tokens of its own reader's source, and while it runs its configuration
\* holds exactly the tokens of its own source it has added so far.
C9_NoInterference ==
    /\ \A t \in Threads : pc[t] = "loop" =>
            /\ tokens[t] = TokenSeq(m_str[self[t]])
            /\ conf[t] = SubSeq(tokens[t], 1, it[t] - 1)
    /\ \A c \in Ended : Res(c).returned =>
            Res(c).conf = TokenSeq(Src(c))

C9_Witness ==
    /\ m_str[1] = <<"a", " ", "a">>
    /\ \A t \in Threads :
          /\ Len(results[t]) >= 1
          /\ results[t][1].overlap
          /\ results[t][1].returned
          /\ results[t][1].reader = 1
          /\ Len(results[t][1].conf) = 2
    /\ Cardinality(Threads) = 2

\* C10: inside one Read() call AddEntry is invoked only after the split,
\* once per token and in token order, never again after an invocation has
\* failed; a call that returns has invoked it once for every token; and a
\* call that has started ends.
C10_State ==
    /\ \A t \in Threads :
          /\ pc[t] = "split" => invoked[t] = <<>>
          /\ Len(invoked[t]) <= NumTokens(m_str[self[t]])
          /\ invoked[t] = SubSeq(TokenSeq(m_str[self[t]]), 1, Len(invoked[t]))
          /\ pc[t] = "loop" => Len(conf[t]) = Len(invoked[t])
    /\ \A c \in Ended :
          /\ Res(c).returned => Res(c).invoked = TokenSeq(Src(c))
          /\ ~Res(c).returned =>
                /\ Len(Res(c).invoked) >= 1
                /\ Res(c).invoked =
                      SubSeq(TokenSeq(Src(c)), 1, Len(Res(c).invoked))

C10_Step ==
    \A t \in Threads :
        \/ invoked'[t] = invoked[t]
        \/ pc[t] = "idle" /\ invoked'[t] = <<>>
        \/ /\ pc[t] = "loop"
           /\ Len(conf[t]) = Len(invoked[t])
           /\ invoked'[t] = Append(invoked[t], tokens[t][Len(invoked[t]) + 1])

C10_AddEntryOrder ==
    /\ []C10_State
    /\ [][C10_Step]_vars
    /\ (pc[1] # "idle") ~> (pc[1] = "idle")

C10_Witness ==
    \E t \in Threads :
        /\ Len(results[t]) >= 2
        /\ ~results[t][1].returned
        /\ Len(results[t][1].invoked) = 2
        /\ results[t][2].returned
        /\ Len(results[t][2].invoked) = 3
====
